---- MODULE Spec2Model ----
(***************************************************************************)
(* usdx_parser (src/src/lib.rs): parsing a UltraStar song text into a Song *)
(* (Song::try_from), and writing a Song back as text (Song::to_string).    *)
(*                                                                         *)
(* A text is a sequence of characters.  A character is a one-character     *)
(* string; the line feed is "LF" and the carriage return is "CR".          *)
(* An Option<T> is a sequence of length 0 (None) or 1 (Some).              *)
(* A u32 is a record [hi, lo] of two 16-bit limbs (value hi * 2^16 + lo),  *)
(* so that values up to 2^32 - 1 and the overflow of an addition are       *)
(* represented exactly.                                                    *)
(***************************************************************************)
EXTENDS Integers, Sequences, FiniteSets, TLC

LF == "LF"
CR == "CR"
SP == " "

\* Option<T>
None == <<>>
Some(x) == <<x>>

----------------------------------------------------------------------------
(* Strings (std::str)                                                      *)

Drop(s, n) == SubSeq(s, n + 1, Len(s))

\* str::starts_with
StartsWith(s, p) == Len(s) >= Len(p) /\ SubSeq(s, 1, Len(p)) = p

\* str::strip_prefix
StripPrefix(s, p) == IF StartsWith(s, p) THEN Some(Drop(s, Len(p))) ELSE None

\* position of the first c in s, 0 when there is none
IndexOf(s, c) ==
    IF \E i \in 1..Len(s) : s[i] = c
    THEN CHOOSE i \in 1..Len(s) : s[i] = c /\ \A j \in 1..(i - 1) : s[j] # c
    ELSE 0

\* str::lines strips the "\n" that ends a line and then one "\r" before it
StripCR(l) == IF l # <<>> /\ l[Len(l)] = CR THEN SubSeq(l, 1, Len(l) - 1) ELSE l

\* str::lines: a last line with no "\n" is returned as it is (a bare "\r"
\* that ends it is kept); a text ending in "\n" has no empty last line
RECURSIVE Lines(_)
Lines(t) ==
    IF t = <<>> THEN <<>>
    ELSE LET i == IndexOf(t, LF)
         IN  IF i = 0 THEN <<t>>
             ELSE <<StripCR(SubSeq(t, 1, i - 1))>> \o Lines(Drop(t, i))

\* char::is_whitespace, over the characters of the model
WhiteSpace == {SP, CR, LF}

\* str::trim_start
RECURSIVE TrimStart(_)
TrimStart(s) ==
    IF s # <<>> /\ s[1] \in WhiteSpace THEN TrimStart(Tail(s)) ELSE s

\* str::split(' '): an empty string still yields one (empty) token
RECURSIVE Split(_)
Split(s) ==
    LET i == IndexOf(s, SP)
    IN  IF i = 0 THEN <<s>>
        ELSE <<SubSeq(s, 1, i - 1)>> \o Split(Drop(s, i))

\* [&str]::join(" ")
RECURSIVE Join(_)
Join(ts) ==
    IF ts = <<>> THEN <<>>
    ELSE IF Len(ts) = 1 THEN ts[1]
    ELSE ts[1] \o <<SP>> \o Join(Tail(ts))

\* str::replace(from, to) for single characters
RECURSIVE Replace(_, _, _)
Replace(s, from, to) ==
    IF s = <<>> THEN <<>>
    ELSE <<IF s[1] = from THEN to ELSE s[1]>> \o Replace(Tail(s), from, to)

\* str::replace("\r\n", "\n") on s[lo..hi]: the matches cannot overlap, so
\* every "\r" that a "\n" follows goes and every other character stays
RECURSIVE ReplaceCRLFIn(_, _, _)
ReplaceCRLFIn(s, lo, hi) ==
    IF lo > hi THEN <<>>
    ELSE IF lo = hi
         THEN IF s[lo] = CR /\ lo < Len(s) /\ s[lo + 1] = LF THEN <<>> ELSE <<s[lo]>>
    ELSE ReplaceCRLFIn(s, lo, (lo + hi) \div 2)
         \o ReplaceCRLFIn(s, (lo + hi) \div 2 + 1, hi)

ReplaceCRLF(s) == ReplaceCRLFIn(s, 1, Len(s))

----------------------------------------------------------------------------
(* Numbers (u32, i32, f32: FromStr and Display)                            *)

Digits == {"0", "1", "2", "3", "4", "5", "6", "7", "8", "9"}

DigitVal(c) ==
    CASE c = "0" -> 0 [] c = "1" -> 1 [] c = "2" -> 2 [] c = "3" -> 3
      [] c = "4" -> 4 [] c = "5" -> 5 [] c = "6" -> 6 [] c = "7" -> 7
      [] c = "8" -> 8 [] c = "9" -> 9

DigitChar(d) == <<"0", "1", "2", "3", "4", "5", "6", "7", "8", "9">>[d + 1]

U32(hi, lo) == [hi |-> hi, lo |-> lo]
U32Zero == U32(0, 0)

\* the u32 of a small natural number
U32Of(n) == U32(n \div 65536, n % 65536)

\* u32 + u32: the wrapped sum and whether it overflowed
U32Add(a, b) ==
    LET lo == a.lo + b.lo
        hi == a.hi + b.hi + lo \div 65536
    IN  [overflow |-> hi >= 65536, val |-> U32(hi % 65536, lo % 65536)]

\* the digit loop of from_str_radix: checked_mul(10) then checked_add(digit);
\* None on a character that is no digit and on overflow
RECURSIVE AccDigits(_, _)
AccDigits(s, acc) ==
    IF s = <<>> THEN Some(acc)
    ELSE IF s[1] \notin Digits THEN None
    ELSE LET lo10 == acc.lo * 10 + DigitVal(s[1])
             hi10 == acc.hi * 10 + lo10 \div 65536
         IN  IF hi10 >= 65536 THEN None
             ELSE AccDigits(Tail(s), U32(hi10, lo10 % 65536))

\* str::parse::<u32>: an optional '+', then at least one digit
ParseU32(s) ==
    IF s = <<>> THEN None
    ELSE IF s[1] \in {"+", "-"} /\ Len(s) = 1 THEN None
    ELSE IF s[1] = "+" THEN AccDigits(Tail(s), U32Zero)
    ELSE AccDigits(s, U32Zero)

\* str::parse::<i32>: an optional sign, then at least one digit; the value
\* is [neg, mag] with -2^31 <= value <= 2^31 - 1
ParseI32(s) ==
    IF s = <<>> THEN None
    ELSE IF s[1] \in {"+", "-"} /\ Len(s) = 1 THEN None
    ELSE LET neg == s[1] = "-"
             m   == AccDigits(IF s[1] \in {"+", "-"} THEN Tail(s) ELSE s, U32Zero)
         IN  IF m = None THEN None
             ELSE IF neg
                  THEN IF m[1].hi < 32768 \/ m[1] = U32(32768, 0)
                       THEN Some([neg |-> m[1] # U32Zero, mag |-> m[1]])
                       ELSE None
                  ELSE IF m[1].hi < 32768
                       THEN Some([neg |-> FALSE, mag |-> m[1]])
                       ELSE None

\* <u32 as Display>::fmt
RECURSIVE U32ToString(_)
U32ToString(v) ==
    LET mid == (v.hi % 10) * 65536 + v.lo
        q   == U32(v.hi \div 10, mid \div 10)
        d   == <<DigitChar(mid % 10)>>
    IN  IF q = U32Zero THEN d ELSE U32ToString(q) \o d

\* <i32 as Display>::fmt
I32ToString(v) == (IF v.neg THEN <<"-">> ELSE <<>>) \o U32ToString(v.mag)

RECURSIVE StripLeadingZeros(_)
StripLeadingZeros(s) ==
    IF s # <<>> /\ s[1] = "0" THEN StripLeadingZeros(Tail(s)) ELSE s

RECURSIVE StripTrailingZeros(_)
StripTrailingZeros(s) ==
    IF s # <<>> /\ s[Len(s)] = "0"
    THEN StripTrailingZeros(SubSeq(s, 1, Len(s) - 1)) ELSE s

AllDigits(s) == \A i \in 1..Len(s) : s[i] \in Digits

\* str::parse::<f32> for the plain decimal forms [sign] digits [. digits]
\* (at least one digit): the value is the decimal itself, in lowest form.
\* With at most six significant digits a decimal and the f32 nearest to it
\* determine each other, which is the range the texts of Texts stay in; the
\* exponent, "inf" and "nan" forms f32 also reads do not occur in them.
ParseF32(s) ==
    LET signed == s # <<>> /\ s[1] \in {"+", "-"}
        body   == IF signed THEN Tail(s) ELSE s
        dot    == IndexOf(body, ".")
        ip     == IF dot = 0 THEN body ELSE SubSeq(body, 1, dot - 1)
        fp     == IF dot = 0 THEN <<>> ELSE Drop(body, dot)
    IN  IF AllDigits(ip) /\ AllDigits(fp) /\ Len(ip) + Len(fp) > 0
        THEN Some([neg  |-> signed /\ s[1] = "-",
                   int  |-> StripLeadingZeros(ip),
                   frac |-> StripTrailingZeros(fp)])
        ELSE None

\* <f32 as Display>::fmt: the shortest decimal that reads back as the value
F32ToString(v) ==
    (IF v.neg THEN <<"-">> ELSE <<>>)
    \o (IF v.int = <<>> THEN <<"0">> ELSE v.int)
    \o (IF v.frac = <<>> THEN <<>> ELSE <<".">> \o v.frac)

----------------------------------------------------------------------------
(* NoteType and Note                                                       *)

\* NoteType::try_from(&str)
NoteTypeTryFrom(value) ==
    CASE value = <<":">> -> Some("Normal")
      [] value = <<"*">> -> Some("Golden")
      [] value = <<"F">> -> Some("Freestyle")
      [] value = <<"-">> -> Some("LineBreak")
      [] OTHER -> None

\* NoteType::to_string
NoteTypeToString(t) ==
    CASE t = "Normal" -> <<":">>
      [] t = "Golden" -> <<"*">>
      [] t = "Freestyle" -> <<"F">>
      [] t = "LineBreak" -> <<"-">>

NoteErr == [kind |-> "Err", note |-> None]
NotePanic == [kind |-> "Panic", note |-> None]
NoteOk(n) == [kind |-> "Ok", note |-> Some(n)]

\* Note::try_from(&str): `?` returns the error, unwrap() of a token that is
\* not there panics
NoteTryFrom(value) ==
    LET splot == Split(value)
        nt    == NoteTypeTryFrom(splot[1])
    IN  IF nt = None THEN NoteErr
        ELSE IF Len(splot) < 2 THEN NotePanic
        ELSE LET beat == ParseU32(splot[2])
             IN  IF beat = None THEN NoteErr
                 ELSE IF nt[1] = "LineBreak"
                      THEN NoteOk([note_type   |-> nt[1],
                                   beat_number |-> beat[1],
                                   note_length |-> None,
                                   note_tone   |-> None,
                                   lyric       |-> None])
                 ELSE IF Len(splot) < 3 THEN NotePanic
                 ELSE LET len == ParseU32(splot[3])
                      IN  IF len = None THEN NoteErr
                          ELSE IF Len(splot) < 4 THEN NotePanic
                          ELSE LET tone == ParseI32(splot[4])
                               IN  IF tone = None THEN NoteErr
                                   ELSE NoteOk([note_type   |-> nt[1],
                                                beat_number |-> beat[1],
                                                note_length |-> Some(len[1]),
                                                note_tone   |-> Some(tone[1]),
                                                lyric       |-> Some(Join(Drop(splot, 4)))])

\* Note::update_offset
update_offset(note) ==
    IF note.note_type = "LineBreak" THEN Some(note.beat_number) ELSE None

\* Note::to_string
NoteToString(n) ==
    IF n.note_type = "LineBreak"
    THEN NoteTypeToString(n.note_type) \o <<SP>> \o U32ToString(n.beat_number)
    ELSE NoteTypeToString(n.note_type) \o <<SP>> \o U32ToString(n.beat_number)
         \o <<SP>> \o U32ToString(n.note_length[1])
         \o <<SP>> \o I32ToString(n.note_tone[1])
         \o <<SP>> \o n.lyric[1]

----------------------------------------------------------------------------
(* Song                                                                    *)

TagARTIST   == <<"#", "A", "R", "T", "I", "S", "T", ":">>
TagTITLE    == <<"#", "T", "I", "T", "L", "E", ":">>
TagMP3      == <<"#", "M", "P", "3", ":">>
TagVIDEO    == <<"#", "V", "I", "D", "E", "O", ":">>
TagEDITION  == <<"#", "E", "D", "I", "T", "I", "O", "N", ":">>
TagGENRE    == <<"#", "G", "E", "N", "R", "E", ":">>
TagYEAR     == <<"#", "Y", "E", "A", "R", ":">>
TagLANGUAGE == <<"#", "L", "A", "N", "G", "U", "A", "G", "E", ":">>
TagBPM      == <<"#", "B", "P", "M", ":">>
TagGAP      == <<"#", "G", "A", "P", ":">>
TagVIDEOGAP == <<"#", "V", "I", "D", "E", "O", "G", "A", "P", ":">>
TagRELATIVE == <<"#", "R", "E", "L", "A", "T", "I", "V", "E", ":">>

\* the header scan with .last() in the place of .next()
FirstValueTakingLast(lines, tag) ==
    LET m == SelectSeq(lines, LAMBDA l : StartsWith(l, tag))
    IN  IF m = <<>> THEN None ELSE Some(Drop(m[Len(m)], Len(tag)))

\* lines.clone().filter_map(|l| l.strip_prefix(tag)).next()
FirstValue(lines, tag) ==
    LET m == SelectSeq(lines, LAMBDA l : StartsWith(l, tag))
    IN  IF m = <<>> THEN None ELSE Some(Drop(m[1], Len(tag)))

\* parse_yes_no with the unknown words read as "no"
parse_yes_no_defaulting(input) ==
    IF input \in {<<"y", "e", "s">>, <<"t", "r", "u", "e">>}
    THEN Some(TRUE) ELSE Some(FALSE)

\* parse_yes_no: None stands for the panic of unimplemented!()
parse_yes_no(input) ==
    CASE input \in {<<"y", "e", "s">>, <<"t", "r", "u", "e">>} -> Some(TRUE)
      [] input \in {<<"n", "o">>, <<"f", "a", "l", "s", "e">>} -> Some(FALSE)
      [] OTHER -> None

\* the filter of the notes pipeline: the lines that are offered to Note::try_from
IsNoteLine(a) ==
    ~(StartsWith(a, <<"#">>) \/ StartsWith(a, <<"E">>) \/ a = <<>>)

\* Note::offset: beat_number += n.  With overflow checks (a debug build) an
\* overflowing addition panics (None); without them (a release build) it wraps.
offset(beat_number, n, checked) ==
    LET sum == U32Add(beat_number, n)
    IN  IF sum.overflow /\ checked THEN None ELSE Some(sum.val)

\* the closure with `counter += offset` before `note.offset(counter)`
ResolveNoteCounterFirst(note, counter, checked) ==
    LET off  == update_offset(note)
        next == IF off = None THEN Some(counter) ELSE offset(counter, off[1], checked)
        beat == IF next = None THEN None
                ELSE offset(note.beat_number, next[1], checked)
    IN  IF beat = None \/ next = None THEN None
        ELSE Some([note    |-> [note EXCEPT !.beat_number = beat[1]],
                   counter |-> next[1]])

\* the closure of the notes pipeline for one note, in relative mode: the
\* note's beat number is offset by the counter, and a LineBreak then adds the
\* beat number it was written with to the counter.  None stands for the
\* panic of an overflowing addition.
ResolveNote(note, counter, checked) ==
    LET off  == update_offset(note)
        beat == offset(note.beat_number, counter, checked)
        next == IF off = None THEN Some(counter) ELSE offset(counter, off[1], checked)
    IN  IF beat = None \/ next = None THEN None
        ELSE Some([note    |-> [note EXCEPT !.beat_number = beat[1]],
                   counter |-> next[1]])

\* the notes pipeline of Song::try_from, one line after the other:
\* filter, Note::try_from(a).ok(), the relative offset, collect
RECURSIVE CollectNotes(_, _, _, _, _)
CollectNotes(ls, relative, checked, counter, acc) ==
    IF ls = <<>> THEN [kind |-> "Ok", err |-> "", notes |-> acc]
    ELSE IF ~IsNoteLine(Head(ls))
         THEN CollectNotes(Tail(ls), relative, checked, counter, acc)
    ELSE LET r == NoteTryFrom(Head(ls))
         IN  IF r.kind = "Panic"
             THEN [kind |-> "Panic", notes |-> <<>>,
                   err |-> "called Option::unwrap() on a None value"]
             ELSE IF r.kind = "Err"
                  THEN CollectNotes(Tail(ls), relative, checked, counter, acc)
             ELSE IF ~relative
                  THEN CollectNotes(Tail(ls), relative, checked, counter,
                                    Append(acc, r.note[1]))
             ELSE LET res == ResolveNote(r.note[1], counter, checked)
                  IN  IF res = None
                      THEN [kind |-> "Panic", notes |-> <<>>,
                            err |-> "attempt to add with overflow"]
                      ELSE CollectNotes(Tail(ls), relative, checked, res[1].counter,
                                        Append(acc, res[1].note))

\* value.lines().map(|a| a.trim_start())
RECURSIVE MapTrimStart(_)
MapTrimStart(ls) ==
    IF ls = <<>> THEN <<>> ELSE <<TrimStart(Head(ls))>> \o MapTrimStart(Tail(ls))

TrimmedLines(value) == MapTrimStart(Lines(value))

Panic(why) == [kind |-> "Panic", err |-> why, song |-> None]
Err(why)   == [kind |-> "Err", err |-> why, song |-> None]
Ok(song)   == [kind |-> "Ok", err |-> "", song |-> Some(song)]

\* Song::try_from(String), also Song::from_str.  `checked` is whether the
\* build checks arithmetic overflow.
SongTryFrom(value, checked) ==
    LET lines     == TrimmedLines(value)
        artist    == FirstValue(lines, TagARTIST)
        title     == FirstValue(lines, TagTITLE)
        mp3       == FirstValue(lines, TagMP3)
        video     == FirstValue(lines, TagVIDEO)
        edition   == FirstValue(lines, TagEDITION)
        genre     == FirstValue(lines, TagGENRE)
        year      == FirstValue(lines, TagYEAR)
        language  == FirstValue(lines, TagLANGUAGE)
        bpm       == FirstValue(lines, TagBPM)
        gap       == FirstValue(lines, TagGAP)
        video_gap == FirstValue(lines, TagVIDEOGAP)
        rel       == FirstValue(lines, TagRELATIVE)
        relative  == parse_yes_no(IF rel = None THEN <<"n", "o">> ELSE rel[1])
    IN  IF relative = None THEN Panic("not implemented")
        ELSE LET notes == CollectNotes(lines, relative[1], checked, U32Zero, <<>>)
             IN  IF notes.kind = "Panic" THEN Panic(notes.err)
                 ELSE IF title = None THEN Err("No title specified!")
                 ELSE IF bpm = None THEN Err("No bpm specified!")
                 ELSE LET b == ParseF32(Replace(bpm[1], ",", "."))
                      IN  IF b = None THEN Err("BPM specified failed to be parsed!")
                          ELSE IF gap = None THEN Err("No gap specified!")
                          ELSE LET g == ParseU32(gap[1])
                               IN  IF g = None THEN Err("ParseIntError")
                                   ELSE LET vg == IF video_gap = None THEN Some(None)
                                                  ELSE IF ParseU32(video_gap[1]) = None THEN None
                                                  ELSE Some(ParseU32(video_gap[1]))
                                        IN  IF vg = None THEN Err("ParseIntError")
                                            ELSE Ok([artist    |-> artist,
                                                     title     |-> title[1],
                                                     mp3       |-> mp3,
                                                     video     |-> video,
                                                     edition   |-> edition,
                                                     genre     |-> genre,
                                                     year      |-> year,
                                                     language  |-> language,
                                                     bpm       |-> b[1],
                                                     gap       |-> g[1],
                                                     video_gap |-> vg[1],
                                                     notes     |-> notes.notes])

\* one "#TAG:value\n" line of Song::to_string, nothing for an absent field
TagLine(tag, opt) == IF opt = None THEN <<>> ELSE tag \o opt[1] \o <<LF>>

RECURSIVE NoteLines(_)
NoteLines(notes) ==
    IF notes = <<>> THEN <<>>
    ELSE NoteToString(Head(notes)) \o <<LF>> \o NoteLines(Tail(notes))

\* Song::to_string with the bpm written as f32 prints it, the point kept
SongToStringDotBpm(self) ==
    TagLine(TagARTIST, self.artist)
    \o TagLine(TagTITLE, Some(self.title))
    \o TagLine(TagMP3, self.mp3)
    \o TagLine(TagEDITION, self.edition)
    \o TagLine(TagGENRE, self.genre)
    \o TagLine(TagYEAR, self.year)
    \o TagLine(TagLANGUAGE, self.language)
    \o TagLine(TagBPM, Some(F32ToString(self.bpm)))
    \o TagLine(TagGAP, Some(U32ToString(self.gap)))
    \o TagLine(TagVIDEO, self.video)
    \o TagLine(TagVIDEOGAP,
               IF self.video_gap = None THEN None
               ELSE Some(U32ToString(self.video_gap[1])))
    \o NoteLines(self.notes)
    \o <<"E", LF>>

\* Song::to_string
SongToString(self) ==
    TagLine(TagARTIST, self.artist)
    \o TagLine(TagTITLE, Some(self.title))
    \o TagLine(TagMP3, self.mp3)
    \o TagLine(TagEDITION, self.edition)
    \o TagLine(TagGENRE, self.genre)
    \o TagLine(TagYEAR, self.year)
    \o TagLine(TagLANGUAGE, self.language)
    \o TagLine(TagBPM, Some(Replace(F32ToString(self.bpm), ".", ",")))
    \o TagLine(TagGAP, Some(U32ToString(self.gap)))
    \o TagLine(TagVIDEO, self.video)
    \o TagLine(TagVIDEOGAP,
               IF self.video_gap = None THEN None
               ELSE Some(U32ToString(self.video_gap[1])))
    \o NoteLines(self.notes)
    \o <<"E", LF>>

----------------------------------------------------------------------------
(* The input texts                                                         *)

LTitle      == TagTITLE \o <<"t">>
LTitle2     == TagTITLE \o <<"u">>
LTitleSp    == <<SP>> \o LTitle
LTitleCr    == TagTITLE \o <<"t", CR>>
LArtist     == TagARTIST \o <<"a">>
LMp3        == TagMP3 \o <<"m">>
LEdition    == TagEDITION \o <<"e">>
LGenre      == TagGENRE \o <<"g">>
LYear       == TagYEAR \o <<"2">>
LLanguage   == TagLANGUAGE \o <<"l">>
LVideo      == TagVIDEO \o <<"v">>
LBpm        == TagBPM \o <<"1", ",", "5">>
LBpmBad     == TagBPM \o <<"x">>
LGap        == TagGAP \o <<"7">>
LGapPlus    == TagGAP \o <<"+", "7">>
LGapBad     == TagGAP \o <<"-", "1">>
LVideoGap   == TagVIDEOGAP \o <<"3">>
LVideoGapBad == TagVIDEOGAP \o <<"3", SP>>
LRelYes     == TagRELATIVE \o <<"y", "e", "s">>
LRelTrue    == TagRELATIVE \o <<"t", "r", "u", "e">>
LRelNo      == TagRELATIVE \o <<"n", "o">>
LRelBad     == TagRELATIVE \o <<"Y", "e", "s">>

\* the header blocks a text starts with
HeaderBlocks ==
    { <<LTitle, LBpm, LGap>>,
      <<LArtist, LTitle, LMp3, LEdition, LGenre, LYear, LLanguage, LBpm, LGap,
        LVideo, LVideoGap>>,
      <<LGap, LVideo, LBpm, LTitle>>,
      <<LBpm, LGap>>,
      <<LTitle, LGap>>,
      <<LTitle, LBpm>>,
      <<LTitle, LBpmBad, LGap>>,
      <<LTitle, LBpm, LGapBad>>,
      <<LTitle, LBpm, LGap, LVideoGapBad>>,
      <<LTitle, LBpm, LGap, LRelYes>>,
      <<LRelTrue, LTitle, LBpm, LGap>>,
      <<LTitle, LBpm, LGap, LRelNo>>,
      <<LTitle, LBpm, LGap, LRelBad>>,
      <<LTitle, LTitle2, LBpm, LGap>>,
      <<LTitleSp, LBpm, LGap>>,
      <<LTitle, LBpm, LGapPlus>> }

\* the header blocks that are also written with "\r\n" line ends
CrlfBlocks ==
    { <<LTitle, LBpm, LGap>>,
      <<LArtist, LTitle, LBpm, LGap, LVideo>>,
      <<LTitleCr, LBpm, LGap>> }

\* the header blocks that are also written with no line end after the last line
OpenBlocks == { <<LTitle, LBpm, LGap>> }

NBreak4     == <<"-", SP, "4">>
NHello      == <<":", SP, "0", SP, "4", SP, "5", SP, "h", "e", "l", "l", "o">>
NGolden     == <<"*", SP, "1", SP, "2", SP, "-", "3", SP, "a", SP, "b">>
NNoLyric    == <<"F", SP, "0", SP, "4", SP, "5">>
NBreakMax   == <<"-", SP, "4", "2", "9", "4", "9", "6", "7", "2", "9", "5">>
NBreakEmpty == <<"-", SP>>
NBreakOnly  == <<"-">>
NShort      == <<":", SP, "0", SP, "4">>
NUnknown    == <<"x", SP, "1">>
LEnd        == <<"E">>

\* the lines that follow the header block
BodyPool ==
    { NBreak4, NHello, NGolden, NNoLyric, NBreakMax, NBreakEmpty,
      NBreakOnly, NShort, NUnknown, LEnd, LRelYes }

\* the largest number of lines after the header block
MaxBody == 2

RECURSIVE SeqsUpTo(_, _)
SeqsUpTo(S, n) ==
    IF n = 0 THEN {<<>>}
    ELSE LET shorter == SeqsUpTo(S, n - 1)
         IN  shorter \cup {Append(b, x) : b \in {c \in shorter : Len(c) = n - 1}, x \in S}

Bodies == SeqsUpTo(BodyPool, MaxBody)

\* the lines written one after the other, each ended by eol, the last one
\* only when final
RECURSIVE Text(_, _, _)
Text(ls, eol, final) ==
    IF ls = <<>> THEN <<>>
    ELSE IF Len(ls) = 1 THEN ls[1] \o (IF final THEN eol ELSE <<>>)
    ELSE ls[1] \o eol \o Text(Tail(ls), eol, final)

Texts ==
    {Text(h \o b, <<LF>>, TRUE) : h \in HeaderBlocks, b \in Bodies}
    \cup {Text(h \o b, <<CR, LF>>, TRUE) : h \in CrlfBlocks, b \in Bodies}
    \cup {Text(h \o b, <<LF>>, FALSE) : h \in OpenBlocks, b \in Bodies}

----------------------------------------------------------------------------
(* The program: a text is parsed, the Song is written back, and the        *)
(* written text is parsed again (test_manual_serde)                        *)

VARIABLES
    text,        \* the input text
    pc,          \* "start", "parsed", "serialized", "reparsed"
    song,        \* the outcome of Song::from_str(&text)
    out,         \* song.to_string()
    again        \* the outcome of Song::from_str(&out)

vars == <<text, pc, song, out, again>>

NotYet == [kind |-> "None", err |-> "", song |-> None]

Init ==
    /\ text \in Texts
    /\ pc = "start"
    /\ song = NotYet
    /\ out = <<>>
    /\ again = NotYet

\* let song = Song::from_str(&text), in a build with or without overflow checks
Parse ==
    /\ pc = "start"
    /\ \E checked \in BOOLEAN : song' = SongTryFrom(text, checked)
    /\ pc' = "parsed"
    /\ UNCHANGED <<text, out, again>>

\* song.unwrap().to_string()
Serialize ==
    /\ pc = "parsed"
    /\ song.kind = "Ok"
    /\ out' = SongToString(song.song[1])
    /\ pc' = "serialized"
    /\ UNCHANGED <<text, song, again>>

\* Song::from_str(&song.to_string())
Reparse ==
    /\ pc = "serialized"
    /\ \E checked \in BOOLEAN : again' = SongTryFrom(out, checked)
    /\ pc' = "reparsed"
    /\ UNCHANGED <<text, song, out>>

Next == Parse \/ Serialize \/ Reparse

Spec == Init /\ [][Next]_vars

----------------------------------------------------------------------------
(* What the claims speak of, read off a text                               *)

\* among the lines ls, one begins with tag
Has(ls, tag) == \E i \in 1..Len(ls) : StartsWith(ls[i], tag)

\* the rest of the first of the lines ls that begins with tag
First(ls, tag) ==
    LET i == CHOOSE k \in 1..Len(ls) :
                 /\ StartsWith(ls[k], tag)
                 /\ \A j \in 1..(k - 1) : ~StartsWith(ls[j], tag)
    IN  Drop(ls[i], Len(tag))

Field(ls, tag) == IF Has(ls, tag) THEN Some(First(ls, tag)) ELSE None

BpmParsesIn(ls) ==
    Has(ls, TagBPM) /\ ParseF32(Replace(First(ls, TagBPM), ",", ".")) # None
GapParsesIn(ls) == Has(ls, TagGAP) /\ ParseU32(First(ls, TagGAP)) # None
VideoGapFineIn(ls) == Has(ls, TagVIDEOGAP) => ParseU32(First(ls, TagVIDEOGAP)) # None
RequiredIn(ls) == Has(ls, TagTITLE) /\ BpmParsesIn(ls) /\ GapParsesIn(ls)

YesWords == { <<"y", "e", "s">>, <<"t", "r", "u", "e">> }
NoWords  == { <<"n", "o">>, <<"f", "a", "l", "s", "e">> }

InvalidRelativeIn(ls) ==
    Has(ls, TagRELATIVE) /\ First(ls, TagRELATIVE) \notin (YesWords \cup NoWords)
RelativeModeIn(ls) == Has(ls, TagRELATIVE) /\ First(ls, TagRELATIVE) \in YesWords
NoRelativeModeIn(ls) == Has(ls, TagRELATIVE) => First(ls, TagRELATIVE) \in NoWords

WellFormed(l) == NoteTryFrom(l).kind = "Ok"

\* the note lines among ls, as they are offered to Note::try_from
Offered(ls) == SelectSeq(ls, IsNoteLine)

\* the well-formed note lines among ls, each as the note written on it
RECURSIVE AsWritten(_)
AsWritten(ls) ==
    IF ls = <<>> THEN <<>>
    ELSE IF IsNoteLine(Head(ls)) /\ WellFormed(Head(ls))
         THEN <<NoteTryFrom(Head(ls)).note[1]>> \o AsWritten(Tail(ls))
         ELSE AsWritten(Tail(ls))

\* a sum of u32 values that does not wrap: hi may exceed 16 bits
BigAdd(a, b) ==
    LET lo == a.lo + b.lo
    IN  [hi |-> a.hi + b.hi + lo \div 65536, lo |-> lo % 65536]

Wrapped(v) == U32(v.hi % 65536, v.lo)

\* the sum of the beat numbers written on the LineBreaks among ns[1..n]
RECURSIVE BreakSum(_, _)
BreakSum(ns, n) ==
    IF n = 0 THEN U32Zero
    ELSE IF ns[n].note_type = "LineBreak"
         THEN BigAdd(BreakSum(ns, n - 1), ns[n].beat_number)
         ELSE BreakSum(ns, n - 1)

\* the beat number the i-th of the written notes w is to have
ExpectedBeat(w, relative, i) ==
    IF relative THEN BigAdd(w[i].beat_number, BreakSum(w, i - 1))
    ELSE w[i].beat_number

\* the outcomes Song::from_str can have for a text, over both kinds of build
Parses(t) == {SongTryFrom(t, checked) : checked \in BOOLEAN}

\* the text cut into its lines, each with its line end
RECURSIVE Pieces(_)
Pieces(t) ==
    IF t = <<>> THEN <<>>
    ELSE LET i == IndexOf(t, LF)
         IN  IF i = 0 THEN <<t>> ELSE <<SubSeq(t, 1, i)>> \o Pieces(Drop(t, i))

RECURSIVE Concat(_)
Concat(ps) == IF ps = <<>> THEN <<>> ELSE Head(ps) \o Concat(Tail(ps))

IsTerminator(piece) == StartsWith(TrimStart(piece), <<"E">>)
HasTerminator(ps) == \E i \in 1..Len(ps) : IsTerminator(ps[i])

\* the lines ps up to and with the first that begins with 'E'
Truncated(ps) ==
    LET k == CHOOSE i \in 1..Len(ps) :
                 IsTerminator(ps[i]) /\ \A j \in 1..(i - 1) : ~IsTerminator(ps[j])
    IN  Concat(SubSeq(ps, 1, k))

AllTags == { TagARTIST, TagTITLE, TagMP3, TagVIDEO, TagEDITION, TagGENRE, TagYEAR,
             TagLANGUAGE, TagBPM, TagGAP, TagVIDEOGAP, TagRELATIVE }

IsHeader(piece) == \E t \in AllTags : StartsWith(TrimStart(piece), t)
TagOf(piece) == CHOOSE t \in AllTags : StartsWith(TrimStart(piece), t)
EndsLine(piece) == piece[Len(piece)] = LF

\* the lines ps with the lines i and i + 1 exchanged
Swapped(ps, i) ==
    Concat(SubSeq(ps, 1, i - 1) \o <<ps[i + 1], ps[i]>> \o SubSeq(ps, i + 2, Len(ps)))

\* the lines ps without the line j
Without(ps, j) == Concat(SubSeq(ps, 1, j - 1) \o SubSeq(ps, j + 1, Len(ps)))

\* two header lines of distinct tags, one after the other
SwappablePair(ps, i) ==
    /\ i + 1 <= Len(ps)
    /\ IsHeader(ps[i]) /\ IsHeader(ps[i + 1])
    /\ EndsLine(ps[i]) /\ EndsLine(ps[i + 1])
    /\ TagOf(ps[i]) # TagOf(ps[i + 1])

\* line j repeats the tag of an earlier line
LaterDuplicate(ps, j) ==
    /\ IsHeader(ps[j])
    /\ \E i \in 1..(j - 1) : IsHeader(ps[i]) /\ TagOf(ps[i]) = TagOf(ps[j])

(* The layout Song::to_string writes                                       *)

CanonUnsigned(s) == s # <<>> /\ AllDigits(s) /\ (Len(s) = 1 \/ s[1] # "0")

CanonSigned(s) ==
    \/ CanonUnsigned(s)
    \/ s # <<>> /\ s[1] = "-" /\ CanonUnsigned(Tail(s)) /\ Tail(s) # <<"0">>

CanonDecimal(s) ==
    LET c == IndexOf(s, ",")
    IN  IF c = 0 THEN CanonUnsigned(s)
        ELSE /\ CanonUnsigned(SubSeq(s, 1, c - 1))
             /\ Drop(s, c) # <<>> /\ AllDigits(Drop(s, c)) /\ s[Len(s)] # "0"

CanonNoteLine(l) ==
    LET ts == Split(l)
    IN  /\ WellFormed(l)
        /\ IF ts[1] = <<"-">>
           THEN Len(ts) = 2 /\ CanonUnsigned(ts[2])
           ELSE /\ Len(ts) >= 5
                /\ CanonUnsigned(ts[2]) /\ CanonUnsigned(ts[3]) /\ CanonSigned(ts[4])

SerializedOrder ==
    << TagARTIST, TagTITLE, TagMP3, TagEDITION, TagGENRE, TagYEAR, TagLANGUAGE,
       TagBPM, TagGAP, TagVIDEO, TagVIDEOGAP >>

Ranked(l) == \E r \in 1..Len(SerializedOrder) : StartsWith(l, SerializedOrder[r])
Rank(l) == CHOOSE r \in 1..Len(SerializedOrder) : StartsWith(l, SerializedOrder[r])

CanonHeaderLine(l) ==
    /\ Ranked(l)
    /\ SerializedOrder[Rank(l)] = TagBPM => CanonDecimal(Drop(l, Len(TagBPM)))
    /\ SerializedOrder[Rank(l)] = TagGAP => CanonUnsigned(Drop(l, Len(TagGAP)))
    /\ SerializedOrder[Rank(l)] = TagVIDEOGAP => CanonUnsigned(Drop(l, Len(TagVIDEOGAP)))

\* every line ends with "\n" or "\r\n"; no carriage return otherwise; the
\* header lines come first, each tag at most once, in the order of
\* to_string and with the numerals as it prints them; then well-formed note
\* lines as Note::to_string prints them; then the one line "E"
Canonical(t) ==
    LET ls == Lines(t)
    IN  /\ t # <<>> /\ t[Len(t)] = LF
        /\ ls[Len(ls)] = <<"E">>
        /\ \A i \in 1..Len(ls) : \A j \in 1..Len(ls[i]) : ls[i][j] # CR
        /\ \E k \in 0..(Len(ls) - 1) :
              /\ \A i \in 1..k : CanonHeaderLine(ls[i])
              /\ \A i \in 1..(k - 1) : Rank(ls[i]) < Rank(ls[i + 1])
              /\ \A i \in (k + 1)..(Len(ls) - 1) : CanonNoteLine(ls[i])

----------------------------------------------------------------------------
(* The claims                                                              *)

SeenLines == TrimmedLines(text)
Parsed == pc = "parsed" /\ song.kind = "Ok"
TheSong == song.song[1]

\* C1, as stated: whenever a text that declares no relative mode is parsed
\* with success, to_string of the Song is the text with every "\r\n"
\* replaced by "\n".
C1_RoundTripAnyText ==
    (pc = "serialized" /\ NoRelativeModeIn(SeenLines)) => out = ReplaceCRLF(text)

\* C1, amended: whenever a text that is in the layout to_string writes (see
\* Canonical) is parsed with success, to_string of the Song is the text with
\* every "\r\n" replaced by "\n".
C1_RoundTripCanonical ==
    (pc = "serialized" /\ Canonical(text)) => out = ReplaceCRLF(text)

C1_Witness ==
    /\ pc = "serialized" /\ Canonical(text)
    /\ \E i \in 1..Len(text) : text[i] = CR
    /\ TheSong.notes # <<>> /\ TheSong.video # None

\* C2: a Song is returned only if #TITLE, a parseable #BPM and a parseable
\* #GAP are present; without #TITLE the parse ends with the missing-title
\* error, with #TITLE and without #BPM with the missing-bpm error, with
\* #TITLE and #BPM and without #GAP with the missing-gap error, whatever the
\* other lines contain.
C2_RequiredFieldsFailFast ==
    pc = "parsed" =>
        LET ls == SeenLines
        IN  /\ song.kind = "Ok" => RequiredIn(ls)
            /\ ~Has(ls, TagTITLE) => song = Err("No title specified!")
            /\ (Has(ls, TagTITLE) /\ ~Has(ls, TagBPM)) => song = Err("No bpm specified!")
            /\ (Has(ls, TagTITLE) /\ BpmParsesIn(ls) /\ ~Has(ls, TagGAP))
                  => song = Err("No gap specified!")

\* C3: a document whose title, bpm and gap are present and parseable (and
\* that has a parseable #VIDEOGAP, if any, and no #RELATIVE line) is parsed
\* with success however its note lines are malformed, and the notes are
\* exactly its well-formed note lines.
C3_NoteLeniency ==
    pc = "parsed" =>
        LET ls == SeenLines
        IN  (RequiredIn(ls) /\ VideoGapFineIn(ls) /\ ~Has(ls, TagRELATIVE))
            => (song.kind = "Ok" /\ TheSong.notes = AsWritten(ls))

\* C4: in a parsed Song the i-th note has the beat number written on its
\* line, plus, in relative mode, the sum of the beat numbers written on the
\* LineBreaks accepted before it.
C4_RelativeOffsets ==
    Parsed =>
        LET ls == SeenLines
            w  == AsWritten(ls)
        IN  /\ Len(TheSong.notes) = Len(w)
            /\ \A i \in 1..Len(w) :
                  TheSong.notes[i].beat_number = ExpectedBeat(w, RelativeModeIn(ls), i)

\* what holds of the code in the place of C4: the beat numbers are those
\* sums modulo 2^32 (a build with overflow checks returns no Song when a sum
\* leaves the u32 range)
RelativeOffsetsModulo ==
    Parsed =>
        LET ls == SeenLines
            w  == AsWritten(ls)
        IN  /\ Len(TheSong.notes) = Len(w)
            /\ \A i \in 1..Len(w) :
                  TheSong.notes[i].beat_number =
                      Wrapped(ExpectedBeat(w, RelativeModeIn(ls), i))

C5Case ==
    /\ Parsed
    /\ RelativeModeIn(SeenLines)
    /\ Offered(SeenLines) = <<NBreak4, NHello>>

\* C5, as stated: in relative mode a LineBreak is stored with the value the
\* running counter has before it: for "- 4" then ": 0 4 5 hello" the
\* LineBreak has beat number 0 and the sung note 4.
C5_BreakAtCounter ==
    (Parsed /\ RelativeModeIn(SeenLines)) =>
        LET w == AsWritten(SeenLines)
        IN  /\ \A i \in 1..Len(w) :
                  w[i].note_type = "LineBreak" =>
                      TheSong.notes[i].beat_number = Wrapped(BreakSum(w, i - 1))
            /\ C5Case => /\ TheSong.notes[1].beat_number = U32Of(0)
                         /\ TheSong.notes[2].beat_number = U32Of(4)

\* C5, amended: in relative mode a LineBreak is stored with its own relative
\* value added to the value the running counter has before it (a u32 sum):
\* for "- 4" then ": 0 4 5 hello" the LineBreak has beat number 4 and the
\* sung note 4.
C5_BreakAtCounterPlusOwn ==
    (Parsed /\ RelativeModeIn(SeenLines)) =>
        LET w == AsWritten(SeenLines)
        IN  /\ \A i \in 1..Len(w) :
                  w[i].note_type = "LineBreak" =>
                      TheSong.notes[i].beat_number =
                          Wrapped(BigAdd(w[i].beat_number, BreakSum(w, i - 1)))
            /\ C5Case => /\ TheSong.notes[1].note_type = "LineBreak"
                         /\ TheSong.notes[1].beat_number = U32Of(4)
                         /\ TheSong.notes[2].note_type = "Normal"
                         /\ TheSong.notes[2].beat_number = U32Of(4)

C5_Witness == C5Case

\* C6: when the first #RELATIVE: line of a text has a value other than yes,
\* true, no, false, the parse returns no Song, whatever the other lines are.
C6_InvalidRelativeNeverParses ==
    (pc = "parsed" /\ InvalidRelativeIn(SeenLines)) => song.kind # "Ok"

C6_Witness ==
    /\ pc = "parsed"
    /\ LET ls == SeenLines
       IN  /\ InvalidRelativeIn(ls)
           /\ RequiredIn(ls) /\ VideoGapFineIn(ls)
           /\ Offered(ls) # <<>>
           /\ \A i \in 1..Len(Offered(ls)) : WellFormed(Offered(ls)[i])

\* C7: parse from text ends with a Song or with an error value, never with
\* a panic.
C7_ParseNeverPanics == song.kind # "Panic" /\ again.kind # "Panic"

\* C8: the Song parsed from a text is the Song parsed from the text cut
\* after its first line beginning with 'E'.
C8_AfterTerminatorIgnored ==
    Parsed =>
        LET ps == Pieces(text)
        IN  HasTerminator(ps) => song \in Parses(Truncated(ps))

\* C9: each of the twelve tags takes the rest of the first line that begins
\* with it (leading whitespace stripped), an optional tag with no line is
\* absent, a later line of the same tag changes nothing, and exchanging two
\* header lines of distinct tags changes nothing.
C9_HeaderPerTag ==
    Parsed =>
        LET ls == SeenLines
            ps == Pieces(text)
            w  == AsWritten(ls)
            s  == TheSong
        IN  /\ s.artist = Field(ls, TagARTIST)
            /\ Some(s.title) = Field(ls, TagTITLE)
            /\ s.mp3 = Field(ls, TagMP3)
            /\ s.video = Field(ls, TagVIDEO)
            /\ s.edition = Field(ls, TagEDITION)
            /\ s.genre = Field(ls, TagGENRE)
            /\ s.year = Field(ls, TagYEAR)
            /\ s.language = Field(ls, TagLANGUAGE)
            /\ Some(s.bpm) = ParseF32(Replace(First(ls, TagBPM), ",", "."))
            /\ Some(s.gap) = ParseU32(First(ls, TagGAP))
            /\ s.video_gap =
                  (IF Has(ls, TagVIDEOGAP) THEN ParseU32(First(ls, TagVIDEOGAP)) ELSE None)
            /\ Len(s.notes) = Len(w)
            /\ \A i \in 1..Len(w) :
                  s.notes[i].beat_number = Wrapped(ExpectedBeat(w, RelativeModeIn(ls), i))
            /\ \A j \in 1..Len(ps) : LaterDuplicate(ps, j) => song \in Parses(Without(ps, j))
            /\ \A i \in 1..Len(ps) : SwappablePair(ps, i) => song \in Parses(Swapped(ps, i))

C9_Witness ==
    /\ Parsed
    /\ LET ps == Pieces(text)
       IN  /\ \E j \in 1..Len(ps) : LaterDuplicate(ps, j)
           /\ \E i \in 1..Len(ps) : SwappablePair(ps, i)
    /\ TheSong.artist = None

\* C10: the text to_string writes for a parsed Song is parsed with success,
\* to a Song equal to the first in every field and in all its notes.
C10_ReparseIsStable == pc = "reparsed" => again = song

\* what holds of the code in the place of C10: the re-parse returns the same
\* Song whenever the written text holds no carriage return
ReparseStableWithoutCR ==
    (pc = "reparsed" /\ \A i \in 1..Len(out) : out[i] # CR) => again = song

====
